---- MODULE Spec2Model ----
(***************************************************************************)
(* sql-expert: the DDL generators (expert/ddl, db_structure_extractor.py)  *)
(* and the dump_ddl command line that drives them.                         *)
(*                                                                         *)
(* Text is modelled as a sequence of string atoms: the empty string is     *)
(* <<>>, concatenation is \o, and every literal piece of an f-string is    *)
(* one atom (whitespace and punctuation included), so that the text a      *)
(* generator returns can be scanned for its statements.                    *)
(***************************************************************************)
EXTENDS Integers, Sequences, FiniteSets, TLC

VARIABLES
    db,         \* the database behind the inspector: enumeration order and metadata
    generator,  \* the DDL generator object (dialect, MetaData), or NoGenerator
    fault,      \* the inspector call that raised during the last operation, or NoFault
    result,     \* what the last operation returned or raised
    previous,   \* the last run of main() before the one in result that wrote a script
    connection  \* the DatabaseConnection singleton: its attributes and its caches

vars == <<db, generator, fault, result, previous, connection>>

None == "None"

\* an attribute that is None, or holds an object made for connection_string
NoObject == [set |-> FALSE]
Object(connection_string) == [set |-> TRUE, connection_string |-> connection_string]

\* an Optional value: None, or a value
Nothing == [some |-> FALSE]
Some(value) == [some |-> TRUE, value |-> value]

\* the cache of an lru_cache(maxsize=1) method of the singleton: empty, or
\* the value its first call returned
NoEntry == [hit |-> FALSE]
Entry(value) == [hit |-> TRUE, value |-> value]

\* the class before the first DatabaseConnection(): _instance is None and
\* _initialized is False
NoConnection ==
    [instance |-> FALSE, initialized |-> FALSE, db_info |-> Nothing,
     sync_executor |-> NoObject, async_executor |-> NoObject, engine |-> NoObject,
     get_ddl |-> NoEntry, get_tables |-> NoEntry]

---------------------------------------------------------------------------
(* Python str and list helpers *)

\* sep.join(parts): parts is a sequence of texts
RECURSIVE Join(_, _)
Join(sep, parts) ==
    IF parts = <<>> THEN <<>>
    ELSE IF Len(parts) = 1 THEN parts[1]
    ELSE parts[1] \o sep \o Join(sep, Tail(parts))

\* ', '.join(columns): columns is a list of column names, each one atom
JoinNames(sep, names) == Join(sep, [i \in 1..Len(names) |-> <<names[i]>>])

\* sub in s
Contains(s, sub) ==
    \E i \in 0..(Len(s) - Len(sub)) : SubSeq(s, i + 1, i + Len(sub)) = sub

\* the concatenation of a list of lists
RECURSIVE Flatten(_)
Flatten(lists) ==
    IF lists = <<>> THEN <<>> ELSE lists[1] \o Flatten(Tail(lists))

Range(s) == {s[i] : i \in 1..Len(s)}

\* every sequence over S of length at most n
SeqsUpTo(S, n) == UNION {[1..k -> S] : k \in 0..n}

---------------------------------------------------------------------------
(* expert/ddl/factory.py *)

POSTGRESQL == "postgresql"
MYSQL == "mysql"
MSSQL == "mssql"

DatabaseType == {POSTGRESQL, MYSQL, MSSQL}

UnsupportedMessage ==
    <<"Unsupported database type. Use ", "PostgreSQL", ", ", "MySQL", ", or ", "MSSQL", ".">>

Raise(type, message) == [kind |-> "raise", type |-> type, message |-> message]
Return(value) == [kind |-> "return", value |-> value]

\* The class create_ddl_generator instantiates for connection_string, or the
\* ValueError it raises.
SelectDialect(connection_string) ==
    IF Contains(connection_string, <<POSTGRESQL>>) THEN Return(POSTGRESQL)
    ELSE IF Contains(connection_string, <<MYSQL>>) THEN Return(MYSQL)
    ELSE IF Contains(connection_string, <<MSSQL>>) THEN Return(MSSQL)
    ELSE Raise("ValueError", UnsupportedMessage)

\* BaseDDLGenerator.__init__: the generator of a dialect class, with an empty
\* MetaData (engine and inspector stand for the database db).
NewGenerator(dialect) == [dialect |-> dialect, metadata |-> {}]

NoGenerator == [dialect |-> "none", metadata |-> {}]

---------------------------------------------------------------------------
(* BaseDDLGenerator and its three subclasses.  The inspector's answers for  *)
(* a table are read from d, the database.                                   *)

\* text.split(sep): the pieces of text between the occurrences of sep
RECURSIVE Split(_, _)
Split(text, sep) ==
    IF sep \notin Range(text) THEN <<text>>
    ELSE LET k == CHOOSE k \in 1..Len(text) :
                      text[k] = sep /\ \A m \in 1..(k - 1) : text[m] # sep
         IN  <<SubSeq(text, 1, k - 1)>> \o Split(SubSeq(text, k + 1, Len(text)), sep)

\* Optional[str]: a schema name, or None
SchemaOf(name) == [schema |-> TRUE, name |-> name]
NoSchema == [schema |-> FALSE]

\* the part of the identifier before its last '.'
SchemaNameBeforeLastDot(table_name) ==
    IF "." \in Range(table_name)
    THEN LET pieces == Split(table_name, ".")
         IN  SchemaOf(Join(<<".">>, SubSeq(pieces, 1, Len(pieces) - 1)))
    ELSE NoSchema

get_schema_name(table_name) ==
    IF "." \in Range(table_name)
    THEN SchemaOf(Split(table_name, ".")[1])
    ELSE NoSchema

\* str(sa.schema.CreateTable(table).compile(engine)): the column-level
\* statement of the reflected table, opaque to the generators.
CompileCreateTable(table_name, columns) ==
    <<"CREATE TABLE ">> \o table_name \o <<" (", columns, ")">>

\* The columns sa.Table(table_name, self.metadata, autoload_with=engine)
\* carries: those of the Table already in the MetaData, else the reflected
\* ones.
TableColumns(g, d, table_name) ==
    IF \E e \in g.metadata : e.table = table_name
    THEN (CHOOSE e \in g.metadata : e.table = table_name).columns
    ELSE d.columns[table_name]

\* an if/elif chain: only the first option present is appended
MySQLTableOptionsFirstOnly(table_info) ==
    IF "mysql_engine" \in DOMAIN table_info
    THEN << <<"ENGINE=", table_info["mysql_engine"]>> >>
    ELSE IF "mysql_charset" \in DOMAIN table_info
    THEN << <<"CHARACTER SET ", table_info["mysql_charset"]>> >>
    ELSE IF "mysql_collate" \in DOMAIN table_info
    THEN << <<"COLLATE ", table_info["mysql_collate"]>> >>
    ELSE <<>>

MySQLTableOptions(table_info) ==
    IF DOMAIN table_info # {}
    THEN (IF "mysql_engine" \in DOMAIN table_info
          THEN << <<"ENGINE=", table_info["mysql_engine"]>> >> ELSE <<>>)
      \o (IF "mysql_charset" \in DOMAIN table_info
          THEN << <<"CHARACTER SET ", table_info["mysql_charset"]>> >> ELSE <<>>)
      \o (IF "mysql_collate" \in DOMAIN table_info
          THEN << <<"COLLATE ", table_info["mysql_collate"]>> >> ELSE <<>>)
    ELSE <<>>

get_table_ddl(g, d, table_name) ==
    LET ddl == CompileCreateTable(table_name, TableColumns(g, d, table_name))
        table_options == MySQLTableOptions(d.options[table_name])
    IN  IF g.dialect = MYSQL /\ table_options # <<>>
        THEN ddl \o <<" ">> \o Join(<<" ">>, table_options)
        ELSE ddl

\* a test of the key's presence instead of its value
IndexUniqueWhenKeyPresent(index) ==
    IF "unique" \in DOMAIN index THEN <<"UNIQUE ">> ELSE <<>>

IndexUnique(index) == IF index.unique THEN <<"UNIQUE ">> ELSE <<>>

IndexType(index) ==
    IF "mysql_type" \in DOMAIN index THEN index.mysql_type ELSE "BTREE"

\* the statement with the columns of the index listed last to first
IndexDDLColumnsReversed(dialect, table_name, index) ==
    <<"CREATE ">> \o IndexUnique(index) \o <<"INDEX ", index.name, " ON ">>
        \o table_name \o <<" (">> \o JoinNames(<<", ">>, [i \in 1..Len(index.column_names) |->
                   index.column_names[Len(index.column_names) + 1 - i]])
        \o (CASE dialect = POSTGRESQL -> <<");">>
              [] dialect = MYSQL -> <<") USING ", IndexType(index), ";">>
              [] dialect = MSSQL -> <<") WITH (ONLINE = ON);">>)

IndexDDL(dialect, table_name, index) ==
    <<"CREATE ">> \o IndexUnique(index) \o <<"INDEX ", index.name, " ON ">>
        \o table_name \o <<" (">> \o JoinNames(<<", ">>, index.column_names)
        \o (CASE dialect = POSTGRESQL -> <<");">>
              [] dialect = MYSQL -> <<") USING ", IndexType(index), ";">>
              [] dialect = MSSQL -> <<") WITH (ONLINE = ON);">>)

get_indexes_ddl(g, d, table_name) ==
    [i \in 1..Len(d.indexes[table_name]) |->
        IndexDDL(g.dialect, table_name, d.indexes[table_name][i])]

ForeignKeyOptions(fk) ==
    (IF "onupdate" \in DOMAIN fk THEN << <<"ON UPDATE ", fk.onupdate>> >> ELSE <<>>)
    \o (IF "ondelete" \in DOMAIN fk THEN << <<"ON DELETE ", fk.ondelete>> >> ELSE <<>>)

\* the statement referring to the first referred column only
ForeignKeyDDLFirstReferredColumn(dialect, table_name, fk) ==
    <<"ALTER TABLE ">> \o table_name \o <<" ADD CONSTRAINT ", fk.name, " ">>
        \o <<"FOREIGN KEY (">> \o JoinNames(<<", ">>, fk.constrained_columns) \o <<") ">>
        \o <<"REFERENCES ">> \o fk.referred_table \o <<" (">>
        \o JoinNames(<<", ">>, SubSeq(fk.referred_columns, 1, 1))
        \o (IF dialect = MYSQL
            THEN <<") ">> \o Join(<<" ">>, ForeignKeyOptions(fk)) \o <<";">>
            ELSE <<");">>)

ForeignKeyDDL(dialect, table_name, fk) ==
    <<"ALTER TABLE ">> \o table_name \o <<" ADD CONSTRAINT ", fk.name, " ">>
        \o <<"FOREIGN KEY (">> \o JoinNames(<<", ">>, fk.constrained_columns) \o <<") ">>
        \o <<"REFERENCES ">> \o fk.referred_table \o <<" (">>
        \o JoinNames(<<", ">>, fk.referred_columns)
        \o (IF dialect = MYSQL
            THEN <<") ">> \o Join(<<" ">>, ForeignKeyOptions(fk)) \o <<";">>
            ELSE <<");">>)

get_foreign_keys_ddl(g, d, table_name) ==
    [i \in 1..Len(d.foreign_keys[table_name]) |->
        ForeignKeyDDL(g.dialect, table_name, d.foreign_keys[table_name][i])]

Preamble(dialect) ==
    CASE dialect = POSTGRESQL -> <<>>
      [] dialect = MYSQL -> << <<"SET FOREIGN_KEY_CHECKS=0;", "\n">> >>
      [] dialect = MSSQL -> << <<"SET NOCOUNT ON;", "\n">> >>

Postamble(dialect) ==
    IF dialect = MYSQL THEN << <<"SET FOREIGN_KEY_CHECKS=1;", "\n">> >> ELSE <<>>

\* a loop that appends a comment line for a category the table has none of
TablePartsWithPlaceholders(g, d, table_name) ==
    LET indexes == get_indexes_ddl(g, d, table_name)
        foreign_keys == get_foreign_keys_ddl(g, d, table_name)
    IN  <<get_table_ddl(g, d, table_name), <<"\n">> >>
        \o (IF indexes # <<>> THEN indexes ELSE << <<"-- no indexes">> >>) \o << <<"\n">> >>
        \o (IF foreign_keys # <<>> THEN foreign_keys ELSE << <<"-- no foreign keys">> >>)
        \o << <<"\n">> >>

\* a pass that appends the foreign keys of the table last to first
TablePartsForeignKeysReversed(g, d, table_name) ==
    LET indexes == get_indexes_ddl(g, d, table_name)
        foreign_keys == get_foreign_keys_ddl(g, d, table_name)
    IN  <<get_table_ddl(g, d, table_name), <<"\n">> >>
        \o (IF indexes # <<>> THEN indexes \o << <<"\n">> >> ELSE <<>>)
        \o (IF foreign_keys # <<>>
            THEN [i \in 1..Len(foreign_keys) |-> foreign_keys[Len(foreign_keys) + 1 - i]]
                     \o << <<"\n">> >>
            ELSE <<>>)

\* What one pass of the loop of get_complete_ddl appends to ddl_parts.
TableParts(g, d, table_name) ==
    LET indexes == get_indexes_ddl(g, d, table_name)
        foreign_keys == get_foreign_keys_ddl(g, d, table_name)
    IN  <<get_table_ddl(g, d, table_name), <<"\n">> >>
        \o (IF indexes # <<>> THEN indexes \o << <<"\n">> >> ELSE <<>>)
        \o (IF foreign_keys # <<>> THEN foreign_keys \o << <<"\n">> >> ELSE <<>>)

\* a loop that brackets every table with the preamble and the postamble
DdlPartsBracketingEachTable(g, d) ==
    Flatten([i \in 1..Len(d.order) |->
        Preamble(g.dialect) \o TableParts(g, d, d.order[i]) \o Postamble(g.dialect)])

DdlParts(g, d) ==
    Preamble(g.dialect)
    \o Flatten([i \in 1..Len(d.order) |-> TableParts(g, d, d.order[i])])
    \o Postamble(g.dialect)

get_complete_ddl(g, d) == Join(<<"\n">>, DdlParts(g, d))

\* a loop that keeps one entry, the last table's, under every key
AllTablesDdlOfLastTable(g, d) ==
    [table_name \in Range(d.order) |-> get_table_ddl(g, d, d.order[Len(d.order)])]

get_all_tables_ddl(g, d) ==
    [table_name \in Range(d.order) |-> get_table_ddl(g, d, table_name)]

---------------------------------------------------------------------------
(* The inspector calls an operation makes, in program order, and the       *)
(* outcome of the operation when one of them raises.                       *)

NoTable == <<>>
NoFault == [call |-> "none", table |-> NoTable, error |-> "none"]

Call(call, table_name) == [call |-> call, table |-> table_name]

Cached(g, table_name) == \E e \in g.metadata : e.table = table_name

TableDdlCalls(g, table_name) ==
    (IF Cached(g, table_name) THEN <<>> ELSE <<Call("reflect", table_name)>>)
    \o (IF g.dialect = MYSQL THEN <<Call("get_table_options", table_name)>> ELSE <<>>)

IndexesDdlCalls(table_name) == <<Call("get_indexes", table_name)>>

ForeignKeysDdlCalls(table_name) == <<Call("get_foreign_keys", table_name)>>

AllTablesDdlCalls(g, d) ==
    <<Call("get_table_names", NoTable)>>
    \o Flatten([i \in 1..Len(d.order) |-> TableDdlCalls(g, d.order[i])])

CompleteDdlCalls(g, d) ==
    <<Call("get_table_names", NoTable)>>
    \o Flatten([i \in 1..Len(d.order) |->
            TableDdlCalls(g, d.order[i]) \o IndexesDdlCalls(d.order[i])
                \o ForeignKeysDdlCalls(d.order[i])])

\* the position of the call that raises under fault f, 0 when none does
FailsAt(calls, f) ==
    IF \E i \in 1..Len(calls) : calls[i] = Call(f.call, f.table)
    THEN CHOOSE i \in 1..Len(calls) : calls[i] = Call(f.call, f.table)
    ELSE 0

\* A loop that skips the table whose inspector call raised: only a failure
\* of the table listing ends the operation.
OutcomeSkippingFailedTable(calls, f, value) ==
    IF FailsAt(calls, f) # 0 /\ f.call = "get_table_names"
    THEN Raise(f.error, <<f.call>> \o f.table)
    ELSE Return(value)

\* No generator catches an exception: the first call that raises ends the
\* operation with that exception, otherwise the operation returns value.
Outcome(calls, f, value) ==
    IF FailsAt(calls, f) # 0
    THEN Raise(f.error, <<f.call>> \o f.table)
    ELSE Return(value)

\* The MetaData after the operation: every table reflected before the call
\* that raised stays in it.
MetadataAfter(g, d, calls, f) ==
    LET last == IF FailsAt(calls, f) # 0 THEN FailsAt(calls, f) - 1 ELSE Len(calls)
    IN  g.metadata \cup
            {[table |-> calls[i].table, columns |-> d.columns[calls[i].table]] :
                i \in {j \in 1..last : calls[j].call = "reflect"}}

---------------------------------------------------------------------------
(* expert/dump_ddl.py *)

QuoteAtom(c) ==
    CASE c = "@" -> "%40"
      [] c = ":" -> "%3A"
      [] c = "/" -> "%2F"
      [] c = " " -> "+"
      [] OTHER -> c

\* urllib.parse.quote_plus
quote_plus(text) == [i \in 1..Len(text) |-> QuoteAtom(text[i])]

DefaultPort(db_type) ==
    CASE db_type = POSTGRESQL -> "5432"
      [] db_type = MYSQL -> "3306"
      [] db_type = MSSQL -> "1433"

create_connection_string(db_type, host, database, username, password, port) ==
    LET encoded_password == quote_plus(password)
        port_text == IF port = None THEN DefaultPort(db_type) ELSE port
        url == username \o <<":">> \o encoded_password \o <<"@">> \o host
                   \o <<":", port_text, "/">> \o database
    IN  IF db_type = POSTGRESQL THEN Return(<<"postgresql", "://">> \o url)
        ELSE IF db_type = MYSQL THEN Return(<<"mysql", "://">> \o url)
        ELSE IF db_type = MSSQL
        THEN Return(<<"mssql", "+pyodbc", "://">> \o url
                        \o <<"?driver=ODBC+Driver+17+for+SQL+Server">>)
        ELSE Raise("ValueError", <<"Unsupported database type: ", db_type>>)

\* DatabaseConnection._create_connection_string (expert/tool/connection.py):
\* the same URLs, with the password written as it is given
_create_connection_string(db_type, host, database, username, password, port) ==
    LET port_text == IF port = None THEN DefaultPort(db_type) ELSE port
        url == username \o <<":">> \o password \o <<"@">> \o host
                   \o <<":", port_text, "/">> \o database
    IN  IF db_type = POSTGRESQL THEN Return(<<"postgresql", "://">> \o url)
        ELSE IF db_type = MYSQL THEN Return(<<"mysql", "://">> \o url)
        ELSE IF db_type = MSSQL
        THEN Return(<<"mssql", "+pyodbc", "://">> \o url
                        \o <<"?driver=ODBC+Driver+17+for+SQL+Server">>)
        ELSE Raise("ValueError", <<"Unsupported database type: ", db_type>>)

\* What main() leaves behind: the exit status and what it wrote to stdout,
\* to the --output file and to stderr.
Exit(code, stdout, file, stderr) ==
    [kind |-> "exit", code |-> code, stdout |-> stdout, file |-> file, stderr |-> stderr]

\* except Exception as e: print(f"Error: {str(e)}", file=sys.stderr); sys.exit(1)
MainError(o) == Exit("1", <<>>, <<>>, <<"Error: ">> \o o.message \o <<"\n">>)

\* main() for the parsed arguments, against database d, when the inspector
\* call f raises.
main(db_type, host, database, username, password, port, output, d, f) ==
    LET connection_string ==
            create_connection_string(db_type, host, database, username, password, port)
        selected == SelectDialect(connection_string.value)
        g == NewGenerator(selected.value)
        ddl == Outcome(CompleteDdlCalls(g, d), f, get_complete_ddl(g, d))
    IN  IF connection_string.kind = "raise" THEN MainError(connection_string)
        ELSE IF selected.kind = "raise" THEN MainError(selected)
        ELSE IF ddl.kind = "raise" THEN MainError(ddl)
        ELSE IF output # None
        THEN Exit("0", <<"DDL has been written to ", output, "\n">>, ddl.value, <<>>)
        ELSE Exit("0", ddl.value \o <<"\n">>, <<>>, <<>>)

---------------------------------------------------------------------------
(* The databases, faults and arguments the model is run on *)

MaxIdx == 1     \* indexes per table
MaxFk == 1      \* foreign keys per table

TableNames == {<<"customers">>, <<"orders">>}

Columns(table_name) ==
    IF table_name = <<"customers">> THEN "id INTEGER"
    ELSE "id INTEGER, customer_id INTEGER"

\* the dict inspector.get_indexes returns for an index
IndexDescriptor(name, column_names, unique, mysql_type) ==
    IF mysql_type = None
    THEN [name |-> name, column_names |-> column_names, unique |-> unique]
    ELSE [name |-> name, column_names |-> column_names, unique |-> unique,
          mysql_type |-> mysql_type]

\* the dict inspector.get_foreign_keys returns for a foreign key
ForeignKeyDescriptor(name, referred_table, onupdate, ondelete) ==
    LET fk == [name |-> name, constrained_columns |-> <<"customer_id">>,
               referred_table |-> referred_table, referred_columns |-> <<"id">>]
        keys == {"name", "constrained_columns", "referred_table", "referred_columns"}
                    \cup (IF onupdate = None THEN {} ELSE {"onupdate"})
                    \cup (IF ondelete = None THEN {} ELSE {"ondelete"})
    IN  [k \in keys |->
            CASE k = "onupdate" -> onupdate
              [] k = "ondelete" -> ondelete
              [] OTHER -> fk[k]]

OptionKeys == {"mysql_engine", "mysql_charset", "mysql_collate"}

OptionValue(k) ==
    CASE k = "mysql_engine" -> "InnoDB"
      [] k = "mysql_charset" -> "utf8mb4"
      [] k = "mysql_collate" -> "utf8mb4_bin"
      [] k = "mysql_auto_increment" -> "7"

\* the dicts inspector.get_table_options can return: any of the three keys
\* get_table_ddl reads, and a key it does not read
OptionBags ==
    {[k \in keys |-> OptionValue(k)] :
        keys \in SUBSET (OptionKeys \cup {"mysql_auto_increment"})}

NoOptions == [k \in {} |-> ""]

PlainIndexes == {IndexDescriptor("ix_id", <<"id">>, FALSE, None)}

RichIndexes ==
    {IndexDescriptor("ix_a", column_names, unique, mysql_type) :
        column_names \in {<<"id">>, <<"a", "b">>},
        unique \in BOOLEAN, mysql_type \in {None, "HASH"}}

PlainForeignKeys(tables) ==
    {ForeignKeyDescriptor("fk_ref", referred_table, None, None) :
        referred_table \in tables}

RichForeignKeys(tables) ==
    {ForeignKeyDescriptor("fk_ref", referred_table, onupdate, ondelete) :
        referred_table \in tables,
        onupdate \in {None, "CASCADE"}, ondelete \in {None, "SET NULL"}}

\* the orders get_table_names can enumerate the tables of some database in
Orders ==
    {order \in SeqsUpTo(TableNames, Cardinality(TableNames)) :
        \A i, j \in 1..Len(order) : i # j => order[i] # order[j]}

Database(order, indexes, foreign_keys, options) ==
    [order |-> order,
     columns |-> [t \in Range(order) |-> Columns(t)],
     indexes |-> indexes, foreign_keys |-> foreign_keys, options |-> options]

\* every table with plain indexes and foreign keys, in every enumeration order
PlainDatabases ==
    UNION {
        {Database(order, indexes, foreign_keys, [t \in Range(order) |-> NoOptions]) :
            indexes \in [Range(order) -> SeqsUpTo(PlainIndexes, MaxIdx)],
            foreign_keys \in [Range(order) -> SeqsUpTo(PlainForeignKeys(Range(order)), MaxFk)]}
        : order \in Orders}

\* customers and orders, where orders has every kind of index, of foreign key
\* or of table options
RichDatabases ==
    LET order == << <<"customers">>, <<"orders">> >>
        Only(x) == [t \in Range(order) |-> IF t = <<"orders">> THEN x ELSE <<>>]
        Options(x) == [t \in Range(order) |-> IF t = <<"orders">> THEN x ELSE NoOptions]
    IN  {Database(order, Only(indexes), Only(<<>>), Options(NoOptions)) :
            indexes \in SeqsUpTo(RichIndexes, MaxIdx)}
        \cup {Database(order, Only(<<>>), Only(foreign_keys), Options(NoOptions)) :
            foreign_keys \in SeqsUpTo(RichForeignKeys(Range(order)), MaxFk)}
        \cup {Database(order, Only(<<>>), Only(<<>>), Options(options)) :
            options \in OptionBags}

Databases == PlainDatabases \cup RichDatabases

\* what each inspector call raises when it fails
ErrorOf(call) ==
    CASE call = "get_table_names" -> "ConnectivityError"
      [] call = "reflect" -> "UnsupportedObjectError"
      [] call = "get_table_options" -> "ConnectivityError"
      [] call = "get_indexes" -> "UnsupportedObjectError"
      [] call = "get_foreign_keys" -> "ConnectivityError"

\* no call raises, or one of calls does
FaultsOf(calls) ==
    {NoFault} \cup
        {[call |-> calls[i].call, table |-> calls[i].table,
          error |-> ErrorOf(calls[i].call)] : i \in 1..Len(calls)}

Host == <<"localhost">>
DatabaseName == <<"shop">>
Username == <<"admin">>
Password == <<"p", "@", "ss">>

\* the dialect tags and connection strings create_ddl_generator is given
Tags ==
    {<<"postgresql">>, <<"mysql">>, <<"mssql">>, <<"oracle">>, <<"postgres">>,
     <<"MySQL">>, <<"mysql", "+pymysql">>}

\* the connection strings of the three database types
ConnectionStrings ==
    {create_connection_string(t, Host, DatabaseName, Username, Password, None).value :
        t \in DatabaseType}

---------------------------------------------------------------------------
(* The generator's operations *)

NoResult == [op |-> "none", arg |-> <<>>, outcome |-> [kind |-> "none"]]
NoRun == NoResult

Init ==
    /\ db \in Databases
    /\ generator = NoGenerator
    /\ fault = NoFault
    /\ result = NoResult
    /\ previous = NoRun
    /\ connection = NoConnection

Result(op, arg, outcome) == [op |-> op, arg |-> arg, outcome |-> outcome]

\* generator = create_ddl_generator(connection_string)
CreateDdlGenerator(connection_string) ==
    LET selected == SelectDialect(connection_string)
    IN  /\ generator' = IF selected.kind = "return"
                        THEN NewGenerator(selected.value) ELSE generator
        /\ result' = Result("create_ddl_generator", connection_string, selected)
        /\ fault' = NoFault
        /\ UNCHANGED <<db, previous, connection>>

\* An operation of the generator that makes the inspector calls `calls` and
\* returns value unless the call f raises.
Operation(op, arg, calls, f, value) ==
    /\ generator.dialect \in DatabaseType
    /\ f \in FaultsOf(calls)
    /\ generator' = [generator EXCEPT !.metadata = MetadataAfter(generator, db, calls, f)]
    /\ result' = Result(op, arg, Outcome(calls, f, value))
    /\ fault' = f
    /\ UNCHANGED <<db, previous, connection>>

GetTableDdl(table_name, f) ==
    Operation("get_table_ddl", table_name, TableDdlCalls(generator, table_name), f,
              get_table_ddl(generator, db, table_name))

GetIndexesDdl(table_name, f) ==
    Operation("get_indexes_ddl", table_name, IndexesDdlCalls(table_name), f,
              get_indexes_ddl(generator, db, table_name))

GetForeignKeysDdl(table_name, f) ==
    Operation("get_foreign_keys_ddl", table_name, ForeignKeysDdlCalls(table_name), f,
              get_foreign_keys_ddl(generator, db, table_name))

GetAllTablesDdl(f) ==
    Operation("get_all_tables_ddl", NoTable, AllTablesDdlCalls(generator, db), f,
              get_all_tables_ddl(generator, db))

GetCompleteDdl(f) ==
    Operation("get_complete_ddl", NoTable, CompleteDdlCalls(generator, db), f,
              get_complete_ddl(generator, db))

Next ==
    \/ \E connection_string \in ConnectionStrings : CreateDdlGenerator(connection_string)
    \/ \E table_name \in Range(db.order) : GetTableDdl(table_name, NoFault)
    \/ \E table_name \in Range(db.order) : GetIndexesDdl(table_name, NoFault)
    \/ \E table_name \in Range(db.order) : GetForeignKeysDdl(table_name, NoFault)
    \/ \E f \in FaultsOf(AllTablesDdlCalls(generator, db)) : GetAllTablesDdl(f)
    \/ \E f \in FaultsOf(CompleteDdlCalls(generator, db)) : GetCompleteDdl(f)

Spec == Init /\ [][Next]_vars

---------------------------------------------------------------------------
(* Dialect selection on its own: create_ddl_generator over dialect tags and *)
(* over the connection strings of databases and users of any name.          *)

Names == {<<"shop">>, <<"postgresql">>, <<"mysql">>}

Passwords == {Password, <<"mssql">>}

Ports == {None, "3307"}

SelectInputs ==
    Tags \cup
        {create_connection_string(t, Host, database, username, password, port).value :
            t \in DatabaseType, database \in Names, username \in Names,
            password \in Passwords, port \in Ports}
    \cup
        {_create_connection_string(t, Host, database, username, password, port).value :
            t \in DatabaseType, database \in Names, username \in Names,
            password \in Passwords, port \in Ports}

InitSelect ==
    /\ db = Database(<<>>, <<>>, <<>>, <<>>)
    /\ generator = NoGenerator
    /\ fault = NoFault
    /\ result = NoResult
    /\ previous = NoRun
    /\ connection = NoConnection

NextSelect ==
    \E connection_string \in SelectInputs : CreateDdlGenerator(connection_string)

SpecSelect == InitSelect /\ [][NextSelect]_vars

---------------------------------------------------------------------------
(* Runs of the dump_ddl command line, one process each, against a database  *)
(* whose tables the inspector may enumerate in another order the next time. *)

\* what the inspector reports of a database, its enumeration order aside
Schema(d) ==
    [columns |-> d.columns, indexes |-> d.indexes,
     foreign_keys |-> d.foreign_keys, options |-> d.options]

\* db_type: argparse admits the three choices, or None when the flag is absent
DbTypeArgs == DatabaseType \cup {None}

\* --output is left out: the script goes to stdout
OutputArgs == {None}

\* the inspector calls main() makes for db_type
MainCalls(db_type) ==
    LET connection_string ==
            create_connection_string(db_type, Host, DatabaseName, Username, Password, None)
        selected == SelectDialect(connection_string.value)
    IN  IF connection_string.kind = "raise" THEN <<>>
        ELSE IF selected.kind = "raise" THEN <<>>
        ELSE CompleteDdlCalls(NewGenerator(selected.value), db)

Main(db_type, output, f) ==
    /\ f \in FaultsOf(MainCalls(db_type))
    /\ result' = [op |-> "main", arg |-> <<db_type>>, order |-> db.order,
                  schema |-> Schema(db),
                  outcome |-> main(db_type, Host, DatabaseName, Username, Password,
                                   None, output, db, f)]
    /\ previous' = IF result.op = "main" /\ result.outcome.code = "0"
                   THEN result ELSE previous
    /\ fault' = f
    /\ UNCHANGED <<db, generator, connection>>

\* the inspector enumerates the same tables in another order from now on
Reenumerate(order) ==
    /\ Range(order) = Range(db.order)
    /\ order # db.order
    /\ db' = [db EXCEPT !.order = order]
    /\ UNCHANGED <<generator, fault, result, previous, connection>>

InitRuns ==
    /\ db \in PlainDatabases
    /\ generator = NoGenerator
    /\ fault = NoFault
    /\ result = NoResult
    /\ previous = NoRun
    /\ connection = NoConnection

\* the database is reachable during a run, or its first inspector call raises
RunFaults(db_type) ==
    FaultsOf(IF MainCalls(db_type) = <<>> THEN <<>> ELSE <<MainCalls(db_type)[1]>>)

NextRuns ==
    \/ \E db_type \in DbTypeArgs, output \in OutputArgs :
            \E f \in RunFaults(db_type) : Main(db_type, output, f)
    \/ \E order \in Orders : Reenumerate(order)

SpecRuns == InitRuns /\ [][NextRuns]_vars

---------------------------------------------------------------------------
(* An operation of the generator call by call: each inspector call blocks   *)
(* the operation until the database answers it.  No generator passes a      *)
(* timeout to sa.create_engine, to sa.Table or to the inspector, and none   *)
(* takes one from its caller, so nothing but the answer ends a call.        *)

\* the database never answers the call
NoAnswer(call) == [call |-> call.call, table |-> call.table, error |-> "no answer"]

\* the operation op(arg) in progress: `answered` of its calls have returned
Pending(calls, answered) == [kind |-> "pending", calls |-> calls, answered |-> answered]

InProgress == result.outcome.kind = "pending"

\* the inspector call the operation in progress is blocked in
PendingCall == result.outcome.calls[result.outcome.answered + 1]

\* what the operation op(arg) returns once its calls have returned
ValueOf(op, arg, g, d) ==
    CASE op = "get_table_ddl" -> get_table_ddl(g, d, arg)
      [] op = "get_indexes_ddl" -> get_indexes_ddl(g, d, arg)
      [] op = "get_foreign_keys_ddl" -> get_foreign_keys_ddl(g, d, arg)
      [] op = "get_all_tables_ddl" -> get_all_tables_ddl(g, d)
      [] op = "get_complete_ddl" -> get_complete_ddl(g, d)

\* the inspector calls the operation op(arg) makes
CallsOf(op, arg, g, d) ==
    CASE op = "get_table_ddl" -> TableDdlCalls(g, arg)
      [] op = "get_indexes_ddl" -> IndexesDdlCalls(arg)
      [] op = "get_foreign_keys_ddl" -> ForeignKeysDdlCalls(arg)
      [] op = "get_all_tables_ddl" -> AllTablesDdlCalls(g, d)
      [] op = "get_complete_ddl" -> CompleteDdlCalls(g, d)

\* where the operation stands after `answered` of its calls
Progress(op, arg, calls, answered, g, d) ==
    IF answered = Len(calls) THEN Return(ValueOf(op, arg, g, d))
    ELSE Pending(calls, answered)

\* the caller invokes op(arg) on the generator
Invoke(op, arg) ==
    /\ ~InProgress
    /\ result' = Result(op, arg,
                         Progress(op, arg, CallsOf(op, arg, generator, db), 0, generator, db))
    /\ UNCHANGED <<db, generator, fault, previous, connection>>

\* the database answers the call the operation is blocked in; the operation
\* goes on to its next call, or returns
Answer ==
    /\ InProgress
    /\ fault # NoAnswer(PendingCall)
    /\ LET calls == result.outcome.calls
           answered == result.outcome.answered + 1
           g == [generator EXCEPT !.metadata =
                    IF PendingCall.call = "reflect"
                    THEN @ \cup {[table |-> PendingCall.table,
                                  columns |-> db.columns[PendingCall.table]]}
                    ELSE @]
       IN  /\ generator' = g
           /\ result' = Result(result.op, result.arg,
                                Progress(result.op, result.arg, calls, answered, g, db))
    /\ UNCHANGED <<db, fault, previous, connection>>

\* the calls the database may leave unanswered
SilentCalls ==
    {NoFault} \cup
        {NoAnswer(Call(call, table)) :
            call \in {"reflect", "get_table_options", "get_indexes", "get_foreign_keys"},
            table \in TableNames}
        \cup {NoAnswer(Call("get_table_names", NoTable))}

\* customers and orders, none, one or both of them in either order, each
\* with an index and a foreign key to the table enumerated first
CallDatabases ==
    {Database(order,
              [t \in Range(order) |-> <<IndexDescriptor("ix_id", <<"id">>, FALSE, None)>>],
              [t \in Range(order) |->
                  <<ForeignKeyDescriptor("fk_ref", order[1], None, None)>>],
              [t \in Range(order) |-> NoOptions]) : order \in Orders}

InitCalls ==
    /\ db \in CallDatabases
    /\ generator \in {NewGenerator(dialect) : dialect \in DatabaseType}
    /\ fault \in SilentCalls
    /\ result = NoResult
    /\ previous = NoRun
    /\ connection = NoConnection

NextCalls ==
    \/ \E table_name \in Range(db.order) : Invoke("get_table_ddl", table_name)
    \/ \E table_name \in Range(db.order) : Invoke("get_indexes_ddl", table_name)
    \/ \E table_name \in Range(db.order) : Invoke("get_foreign_keys_ddl", table_name)
    \/ Invoke("get_all_tables_ddl", NoTable)
    \/ Invoke("get_complete_ddl", NoTable)
    \/ Answer

\* the database answers every call it does not leave unanswered
SpecCalls == InitCalls /\ [][NextCalls]_vars /\ WF_vars(Answer)

---------------------------------------------------------------------------
(* One generator used again and again while the schema of the database     *)
(* changes between its operations.                                          *)

\* the columns of a table after a column was added to it
ColumnsWithNote(table_name) ==
    IF table_name = <<"customers">> THEN "id INTEGER, note TEXT"
    ELSE "id INTEGER, customer_id INTEGER, note TEXT"

\* ALTER TABLE table_name ADD COLUMN note / DROP COLUMN note, run by another
\* client of the database
AlterColumns(table_name) ==
    /\ db' = [db EXCEPT !.columns[table_name] =
                  IF @ = Columns(table_name) THEN ColumnsWithNote(table_name)
                  ELSE Columns(table_name)]
    /\ UNCHANGED <<generator, fault, result, previous, connection>>

ChangedOptions == {NoOptions, [mysql_engine |-> "MyISAM"]}

\* ALTER TABLE table_name ENGINE=..., run by another client
AlterOptions(table_name, options) ==
    /\ db.options[table_name] # options
    /\ db' = [db EXCEPT !.options[table_name] = options]
    /\ UNCHANGED <<generator, fault, result, previous, connection>>

InitChanges ==
    /\ db \in {Database(order, [t \in Range(order) |-> <<>>], [t \in Range(order) |-> <<>>],
                         [t \in Range(order) |-> NoOptions]) : order \in Orders}
    /\ generator \in {NewGenerator(dialect) : dialect \in DatabaseType}
    /\ fault = NoFault
    /\ result = NoResult
    /\ previous = NoRun
    /\ connection = NoConnection

NextChanges ==
    \/ \E table_name \in Range(db.order) : GetTableDdl(table_name, NoFault)
    \/ GetAllTablesDdl(NoFault)
    \/ GetCompleteDdl(NoFault)
    \/ \E table_name \in Range(db.order) : AlterColumns(table_name)
    \/ \E table_name \in Range(db.order), options \in ChangedOptions :
            AlterOptions(table_name, options)

SpecChanges == InitChanges /\ [][NextChanges]_vars

---------------------------------------------------------------------------
(* The statements of one table on their own: indexes over column lists of  *)
(* any order, foreign keys over several columns and into another schema,   *)
(* tables named with a schema, and get_schema_name over any identifier.    *)

MaxCols == 2    \* columns of an index, and of each side of a foreign key
MaxName == 5    \* characters of an identifier given to get_schema_name

ColumnNames == {"a", "b", "c"}

\* the lists of distinct columns, of one column up to MaxCols
ColumnLists ==
    {columns \in SeqsUpTo(ColumnNames, MaxCols) :
        /\ columns # <<>>
        /\ \A i, j \in 1..Len(columns) : i # j => columns[i] # columns[j]}

\* the dict inspector.get_foreign_keys returns for a foreign key, over any
\* columns and with the schema of the referred table (None: the default one)
ForeignKeyOn(constrained_columns, referred_schema, referred_table, referred_columns, actions) ==
    LET fk == [name |-> "fk_ref", constrained_columns |-> constrained_columns,
               referred_schema |-> referred_schema, referred_table |-> referred_table,
               referred_columns |-> referred_columns]
    IN  IF actions
        THEN [k \in DOMAIN fk \cup {"onupdate", "ondelete"} |->
                 CASE k = "onupdate" -> "CASCADE"
                   [] k = "ondelete" -> "SET NULL"
                   [] OTHER -> fk[k]]
        ELSE fk

\* the tables the statements are rendered for, bare and schema-qualified
RenderedTables == {<<"orders">>, <<"sales", ".", "orders">>}

RenderedIndexes ==
    {IndexDescriptor("ix_a", column_names, unique, mysql_type) :
        column_names \in ColumnLists, unique \in BOOLEAN, mysql_type \in {None, "HASH"}}

RenderedForeignKeys ==
    {ForeignKeyOn(constrained_columns, referred_schema, <<"customers">>,
                  referred_columns, actions) :
        constrained_columns \in ColumnLists,
        referred_columns \in ColumnLists,
        referred_schema \in {None, "crm"}, actions \in BOOLEAN}

\* one table that has one index, or one foreign key whose two column lists
\* have the same length
RenderDatabases ==
    {Database(<<t>>, [x \in {t} |-> <<index>>], [x \in {t} |-> <<>>], [x \in {t} |-> NoOptions]) :
        t \in RenderedTables, index \in RenderedIndexes}
    \cup
    {Database(<<t>>, [x \in {t} |-> <<>>], [x \in {t} |-> <<fk>>], [x \in {t} |-> NoOptions]) :
        t \in RenderedTables,
        fk \in {f \in RenderedForeignKeys :
                    Len(f.constrained_columns) = Len(f.referred_columns)}}

\* the identifiers get_schema_name is given: any text of at most MaxName
\* characters, dots included
Identifiers == SeqsUpTo({"s", "t", "."}, MaxName)

\* generator.get_schema_name(table_name)
GetSchemaName(table_name) ==
    /\ generator.dialect \in DatabaseType
    /\ result' = Result("get_schema_name", table_name, Return(get_schema_name(table_name)))
    /\ fault' = NoFault
    /\ UNCHANGED <<db, generator, previous, connection>>

InitRender ==
    /\ db \in RenderDatabases
    /\ generator \in {NewGenerator(dialect) : dialect \in DatabaseType}
    /\ fault = NoFault
    /\ result = NoResult
    /\ previous = NoRun
    /\ connection = NoConnection

NextRender ==
    \/ \E table_name \in Range(db.order) : GetIndexesDdl(table_name, NoFault)
    \/ \E table_name \in Range(db.order) : GetForeignKeysDdl(table_name, NoFault)

SpecRender == InitRender /\ [][NextRender]_vars

\* the lists of indexes and of foreign keys a table can have: none, one, or
\* two in either order
IndexLists ==
    LET ix_a == IndexDescriptor("ix_a", <<"a">>, FALSE, None)
        ix_b == IndexDescriptor("ix_b", <<"b">>, TRUE, None)
    IN  {<<>>, <<ix_a>>, <<ix_b>>, <<ix_a, ix_b>>, <<ix_b, ix_a>>}

ForeignKeyLists(referred_table) ==
    LET fk_a == ForeignKeyDescriptor("fk_a", referred_table, None, None)
        fk_b == ForeignKeyDescriptor("fk_b", referred_table, "CASCADE", None)
    IN  {<<>>, <<fk_a>>, <<fk_b>>, <<fk_a, fk_b>>, <<fk_b, fk_a>>}

\* one or two tables in every enumeration order, each with the same indexes
\* and the same foreign keys to the first table
ScriptDatabases ==
    UNION {
        {Database(order, [t \in Range(order) |-> indexes],
                  [t \in Range(order) |-> foreign_keys],
                  [t \in Range(order) |-> NoOptions]) :
            indexes \in IndexLists, foreign_keys \in ForeignKeyLists(order[1])}
        : order \in Orders \ {<<>>}}

InitScript ==
    /\ db \in ScriptDatabases
    /\ generator \in {NewGenerator(dialect) : dialect \in DatabaseType}
    /\ fault = NoFault
    /\ result = NoResult
    /\ previous = NoRun
    /\ connection = NoConnection

NextScript == GetCompleteDdl(NoFault)

SpecScript == InitScript /\ [][NextScript]_vars

\* get_schema_name reads nothing but its argument: a generator of each
\* dialect over a database without tables
InitNames ==
    /\ db \in {d \in PlainDatabases : d.order = <<>>}
    /\ generator \in {NewGenerator(dialect) : dialect \in DatabaseType}
    /\ fault = NoFault
    /\ result = NoResult
    /\ previous = NoRun
    /\ connection = NoConnection

NextNames == \E table_name \in Identifiers : GetSchemaName(table_name)

SpecNames == InitNames /\ [][NextNames]_vars

---------------------------------------------------------------------------
(* expert/tool/connection.py: the DatabaseConnection singleton.  The server *)
(* of each database type serves the database db.                           *)

DatabaseInfo(host, port, database, username, password, db_type, connection_string, ddl, tables) ==
    [host |-> host, port |-> port, database |-> database, username |-> username,
     password |-> password, db_type |-> db_type,
     connection_string |-> connection_string, ddl |-> ddl, tables |-> tables]

is_connected == connection.db_info.some

\* DB = DatabaseConnection(): __new__ returns the one instance and __init__
\* sets its attributes to None unless _initialized is set
Construct ==
    /\ connection' =
           IF connection.initialized
           THEN [connection EXCEPT !.instance = TRUE]
           ELSE [connection EXCEPT !.instance = TRUE, !.initialized = TRUE,
                                   !.db_info = Nothing, !.sync_executor = NoObject,
                                   !.async_executor = NoObject, !.engine = NoObject]
    /\ result' = Result("DatabaseConnection", NoTable, Return(None))
    /\ fault' = NoFault
    /\ UNCHANGED <<db, generator, previous>>

\* the steps of connect that can raise once the connection string is built
ConnectSteps == {"none", "engine.connect", "create_ddl_generator",
                 "get_complete_ddl", "get_all_tables_ddl"}

\* the attributes of the singleton after connect(db_type, ...) when the step
\* `step` raises (the inspector call f, for the steps that extract DDL), and
\* what connect returns or raises
ConnectRun(db_type, step, f) ==
    LET built == _create_connection_string(db_type, Host, DatabaseName, Username,
                                           Password, None)
        connection_string == built.value
        with_engine == [connection EXCEPT !.engine = Object(connection_string)]
        with_executors ==
            [with_engine EXCEPT !.sync_executor = Object(connection_string),
                                !.async_executor = Object(connection_string)]
        selected == SelectDialect(connection_string)
        ddl_generator == NewGenerator(selected.value)
        complete_calls == CompleteDdlCalls(ddl_generator, db)
        complete_fault == IF step = "get_complete_ddl" THEN f ELSE NoFault
        ddl == Outcome(complete_calls, complete_fault,
                       get_complete_ddl(ddl_generator, db))
        reflected ==
            [ddl_generator EXCEPT
                !.metadata = MetadataAfter(ddl_generator, db, complete_calls, NoFault)]
        tables_fault == IF step = "get_all_tables_ddl" THEN f ELSE NoFault
        tables == Outcome(AllTablesDdlCalls(reflected, db), tables_fault,
                          get_all_tables_ddl(reflected, db))
    IN  IF built.kind = "raise"
        THEN [connection |-> connection, outcome |-> built]
        ELSE IF step = "engine.connect"
        THEN [connection |-> with_engine,
              outcome |-> Raise("OperationalError", <<"engine.connect">>)]
        ELSE IF selected.kind = "raise"
        THEN [connection |-> with_executors, outcome |-> selected]
        ELSE IF step = "create_ddl_generator"
        THEN [connection |-> with_executors,
              outcome |-> Raise("OperationalError", <<"sa.inspect">>)]
        ELSE IF ddl.kind = "raise"
        THEN [connection |-> with_executors, outcome |-> ddl]
        ELSE IF tables.kind = "raise"
        THEN [connection |-> with_executors, outcome |-> tables]
        ELSE [connection |->
                  [with_executors EXCEPT !.db_info =
                      Some(DatabaseInfo(Host, DefaultPort(db_type), DatabaseName,
                                        Username, Password, db_type,
                                        connection_string, ddl.value, tables.value))],
              outcome |-> Return(None)]

\* the inspector calls of a step of connect that extracts DDL
StepCalls(db_type, step) ==
    LET built == _create_connection_string(db_type, Host, DatabaseName, Username,
                                           Password, None)
        selected == IF built.kind = "return" THEN SelectDialect(built.value) ELSE built
        ddl_generator == NewGenerator(selected.value)
        complete_calls == CompleteDdlCalls(ddl_generator, db)
        reflected ==
            [ddl_generator EXCEPT
                !.metadata = MetadataAfter(ddl_generator, db, complete_calls, NoFault)]
    IN  IF selected.kind = "raise" THEN <<>>
        ELSE IF step = "get_complete_ddl" THEN complete_calls
        ELSE IF step = "get_all_tables_ddl" THEN AllTablesDdlCalls(reflected, db)
        ELSE <<>>

\* DB.connect(db_type, host, database, username, password)
Connect(db_type, step, f) ==
    /\ connection.instance
    /\ f \in FaultsOf(StepCalls(db_type, step))
    /\ (f = NoFault) = (step \notin {"get_complete_ddl", "get_all_tables_ddl"})
    /\ LET run == ConnectRun(db_type, step, f)
       IN  /\ connection' = run.connection
           /\ result' = Result("connect", <<db_type>>, run.outcome)
    /\ fault' = f
    /\ UNCHANGED <<db, generator, previous>>

\* DB.disconnect()
Disconnect ==
    /\ connection.instance
    /\ connection' = [connection EXCEPT !.engine = NoObject,
                                        !.sync_executor = NoObject,
                                        !.async_executor = NoObject,
                                        !.db_info = Nothing,
                                        !.initialized = FALSE]
    /\ result' = Result("disconnect", NoTable, Return(None))
    /\ fault' = NoFault
    /\ UNCHANGED <<db, generator, previous>>

\* a method under lru_cache(maxsize=1): the singleton is the only key, so
\* the body runs on the first call and the cache answers every later one
CachedCall(cache, value) == IF cache.hit THEN cache.value ELSE value

\* DB.get_ddl()
GetDdl ==
    LET value == CachedCall(connection.get_ddl,
                            IF connection.db_info.some
                            THEN Some(connection.db_info.value.ddl) ELSE Nothing)
    IN  /\ connection.instance
        /\ connection' = [connection EXCEPT !.get_ddl = Entry(value)]
        /\ result' = Result("get_ddl", NoTable, Return(value))
        /\ fault' = NoFault
        /\ UNCHANGED <<db, generator, previous>>

\* DB.get_tables()
GetTables ==
    LET value == CachedCall(connection.get_tables,
                            IF connection.db_info.some
                            THEN Some(connection.db_info.value.tables) ELSE Nothing)
    IN  /\ connection.instance
        /\ connection' = [connection EXCEPT !.get_tables = Entry(value)]
        /\ result' = Result("get_tables", NoTable, Return(value))
        /\ fault' = NoFault
        /\ UNCHANGED <<db, generator, previous>>

\* the db_type values connect is given: the three types and another one
DbTypes == DatabaseType \cup {"oracle"}

InitConnection ==
    /\ db \in {d \in CallDatabases : Len(d.order) = 1}
    /\ generator = NoGenerator
    /\ fault = NoFault
    /\ result = NoResult
    /\ previous = NoRun
    /\ connection = NoConnection

NextConnection ==
    \/ Construct
    \/ \E db_type \in DbTypes, step \in ConnectSteps :
           \E f \in FaultsOf(StepCalls(db_type, step)) : Connect(db_type, step, f)
    \/ Disconnect
    \/ GetDdl
    \/ GetTables

SpecConnection == InitConnection /\ [][NextConnection]_vars

---------------------------------------------------------------------------
(* Reading a script: where its statements start, and the tables they name *)

CreateTableAt(text) == {i \in 1..Len(text) : text[i] = "CREATE TABLE "}
CreateIndexAt(text) == {i \in 1..Len(text) : text[i] = "CREATE "}
AlterTableAt(text) == {i \in 1..Len(text) : text[i] = "ALTER TABLE "}

\* text names table_name right after position i, up to the parenthesis
NamesTableAt(text, i, table_name) ==
    /\ i + Len(table_name) + 1 <= Len(text)
    /\ SubSeq(text, i + 1, i + Len(table_name)) = table_name
    /\ text[i + Len(table_name) + 1] = " ("

\* the statement starting at i creates table_name
CreatesTable(text, i, table_name) ==
    i \in CreateTableAt(text) /\ NamesTableAt(text, i, table_name)

\* the position of the REFERENCES keyword of the ALTER TABLE starting at j
ReferencesAt(text, j) ==
    CHOOSE k \in j..Len(text) :
        text[k] = "REFERENCES " /\ \A m \in j..(k - 1) : text[m] # "REFERENCES "

\* the ALTER TABLE statement starting at j alters table_name
AltersTable(text, j, table_name) ==
    /\ j + Len(table_name) + 1 <= Len(text)
    /\ SubSeq(text, j + 1, j + Len(table_name)) = table_name
    /\ text[j + Len(table_name) + 1] = " ADD CONSTRAINT "

\* the CREATE INDEX statement starting at i is on table_name
IndexesTable(text, i, table_name) ==
    /\ \E k \in i..Len(text) : text[k] = " ON "
    /\ LET on == CHOOSE k \in i..Len(text) :
                    text[k] = " ON " /\ \A m \in i..(k - 1) : text[m] # " ON "
       IN  /\ on + Len(table_name) + 1 <= Len(text)
           /\ SubSeq(text, on + 1, on + Len(table_name)) = table_name
           /\ text[on + Len(table_name) + 1] = " ("

\* text.split("\n"): the lines of a text
RECURSIVE Lines(_)
Lines(text) ==
    IF "\n" \notin Range(text) THEN <<text>>
    ELSE LET k == CHOOSE k \in 1..Len(text) :
                      text[k] = "\n" /\ \A m \in 1..(k - 1) : text[m] # "\n"
         IN  <<SubSeq(text, 1, k - 1)>> \o Lines(SubSeq(text, k + 1, Len(text)))

\* what a line of a script starts with when it is a statement
StatementKeywords ==
    {"CREATE TABLE ", "CREATE ", "ALTER TABLE ",
     "SET FOREIGN_KEY_CHECKS=0;", "SET FOREIGN_KEY_CHECKS=1;", "SET NOCOUNT ON;"}

\* the last operation returned the complete script
ReturnedScript ==
    result.op = "get_complete_ddl" /\ result.outcome.kind = "return"

Script == result.outcome.value

---------------------------------------------------------------------------
(* Claims *)

\* C1: in the script get_complete_ddl returns, every CREATE TABLE statement,
\* of every table, comes before any ALTER TABLE ... ADD CONSTRAINT statement,
\* whatever the order get_table_names enumerates the tables in.
C1_CreateTablesBeforeConstraints ==
    ReturnedScript =>
        \A i \in CreateTableAt(Script), j \in AlterTableAt(Script) : i < j

\* C2: for every foreign key in the script, the CREATE TABLE of the table it
\* references comes strictly before its ALTER TABLE statement, also when the
\* referencing table is enumerated first.
C2_ReferencedTableCreatedFirst ==
    ReturnedScript =>
        \A j \in AlterTableAt(Script) : \E i \in CreateTableAt(Script) :
            /\ i < j
            /\ \E table_name \in Range(db.order) :
                    /\ CreatesTable(Script, i, table_name)
                    /\ NamesTableAt(Script, ReferencesAt(Script, j), table_name)

\* the statements of a script, and its preamble and postamble
StatementAt(text) == CreateTableAt(text) \cup CreateIndexAt(text) \cup AlterTableAt(text)
PreambleAt(text) ==
    {i \in 1..Len(text) : text[i] \in {"SET FOREIGN_KEY_CHECKS=0;", "SET NOCOUNT ON;"}}
PostambleAt(text) == {i \in 1..Len(text) : text[i] = "SET FOREIGN_KEY_CHECKS=1;"}

\* the position of the ON keyword of the CREATE INDEX starting at i
OnAt(text, i) ==
    CHOOSE k \in i..Len(text) :
        text[k] = " ON " /\ \A m \in i..(k - 1) : text[m] # " ON "

\* the CREATE INDEX statements at i and j are on the same table
SameIndexedTable(text, i, j) ==
    \E table_name \in Range(db.order) :
        /\ NamesTableAt(text, OnAt(text, i), table_name)
        /\ NamesTableAt(text, OnAt(text, j), table_name)

\* C3: the script is laid out in five consecutive phases: the preamble, all
\* CREATE TABLE statements, all CREATE INDEX statements (those of one table
\* contiguous), all ALTER TABLE statements, the postamble; no CREATE INDEX
\* precedes a CREATE TABLE and no ALTER TABLE precedes a CREATE INDEX.
C3_FivePhases ==
    ReturnedScript =>
        /\ \A p \in PreambleAt(Script), i \in StatementAt(Script) : p < i
        /\ \A i \in CreateTableAt(Script), j \in CreateIndexAt(Script) : i < j
        /\ \A i \in CreateIndexAt(Script), j \in AlterTableAt(Script) : i < j
        /\ \A i \in CreateTableAt(Script), j \in AlterTableAt(Script) : i < j
        /\ \A i, j \in CreateIndexAt(Script) :
               (i < j /\ SameIndexedTable(Script, i, j)) =>
                   \A k \in CreateIndexAt(Script) :
                       (i < k /\ k < j) => SameIndexedTable(Script, i, k)
        /\ \A i \in StatementAt(Script), q \in PostambleAt(Script) : i < q

\* a run of main() that wrote a script
WroteScript(run) == run.op = "main" /\ run.outcome.code = "0"

\* C4: two runs over an unchanged schema (same tables, columns, indexes,
\* foreign keys and table options) with the same dialect write byte-identical
\* output.
C4_RunsAgree ==
    (/\ WroteScript(previous) /\ WroteScript(result)
     /\ previous.arg = result.arg
     /\ previous.schema = result.schema)
        => previous.outcome.stdout = result.outcome.stdout

\* C5: the script does not depend on the order in which get_table_names
\* enumerates the tables: every permutation of the enumeration yields the
\* script that was returned.
C5_EnumerationOrderIrrelevant ==
    ReturnedScript =>
        \A order \in Orders :
            Range(order) = Range(db.order) =>
                get_complete_ddl(generator, [db EXCEPT !.order = order]) = Script

\* C6: when an inspector call fails during get_complete_ddl or
\* get_all_tables_ddl, the operation ends with that very failure and returns
\* no script or mapping; otherwise it returns.
C6_FailureAbortsSynthesis ==
    result.op \in {"get_complete_ddl", "get_all_tables_ddl"} =>
        IF fault # NoFault
        THEN result.outcome = Raise(fault.error, <<fault.call>> \o fault.table)
        ELSE result.outcome.kind = "return"

\* the inspector failed on the foreign keys of the last table, after every
\* other call of get_complete_ddl had succeeded
C6_Witness ==
    /\ result.op = "get_complete_ddl"
    /\ Len(db.order) = 2
    /\ fault = [call |-> "get_foreign_keys", table |-> db.order[2],
                error |-> "ConnectivityError"]
    /\ result.outcome.kind = "raise"

SupportedTags == {<<t>> : t \in DatabaseType}

Selected == result.op = "create_ddl_generator"

\* C7: for a dialect tag outside the three supported ones create_ddl_generator
\* fails with an error that names the tag, and selects no dialect.
C7_UnsupportedTagNamed ==
    (Selected /\ result.arg \in Tags \ SupportedTags) =>
        /\ result.outcome.kind = "raise"
        /\ Contains(result.outcome.message, result.arg)

\* the dialect tag of an input: the input itself, or the scheme its connection
\* string starts with
TagOf(connection_string) ==
    IF connection_string \in Tags THEN connection_string ELSE <<connection_string[1]>>

\* C8: selection is a function of the dialect tag alone: each of the three
\* tags yields its own dialect, whatever else the input holds, and every
\* other tag yields the failure.
C8_SelectionByTagAlone ==
    Selected =>
        IF TagOf(result.arg) \in SupportedTags
        THEN result.outcome = Return(TagOf(result.arg)[1])
        ELSE result.outcome.kind = "raise"

ReturnedFrom(op) == result.op = op /\ result.outcome.kind = "return"

\* C9: in each dialect, the statement get_indexes_ddl renders for an index
\* holds the UNIQUE keyword if and only if the index is unique.
C9_UniqueIffFlag ==
    ReturnedFrom("get_indexes_ddl") =>
        /\ Len(result.outcome.value) = Len(db.indexes[result.arg])
        /\ \A i \in 1..Len(db.indexes[result.arg]) :
               Contains(result.outcome.value[i], <<"UNIQUE ">>)
                   <=> db.indexes[result.arg][i].unique

\* the SQL Server generator rendered a unique index
C9_Witness ==
    /\ ReturnedFrom("get_indexes_ddl")
    /\ generator.dialect = MSSQL
    /\ \E i \in 1..Len(db.indexes[result.arg]) :
           /\ db.indexes[result.arg][i].unique
           /\ Contains(result.outcome.value[i], <<"UNIQUE ">>)

OptionKeyword(k) ==
    CASE k = "mysql_engine" -> "ENGINE="
      [] k = "mysql_charset" -> "CHARACTER SET "
      [] k = "mysql_collate" -> "COLLATE "

\* C10: the MySQL get_table_ddl appends ENGINE, CHARACTER SET and COLLATE each
\* exactly when the table options hold the key, and nothing for an empty
\* bag; the other two dialects return the CREATE TABLE text as compiled,
\* whatever the table options hold.
C10_TableOptionsEmbedded ==
    ReturnedFrom("get_table_ddl") =>
        LET text == result.outcome.value
            options == db.options[result.arg]
            compiled == CompileCreateTable(result.arg, db.columns[result.arg])
        IN  /\ generator.dialect = MYSQL =>
                   \A k \in OptionKeys :
                       Contains(text, <<OptionKeyword(k)>>) <=> k \in DOMAIN options
            /\ (generator.dialect = MYSQL /\ DOMAIN options = {}) => text = compiled
            /\ generator.dialect # MYSQL =>
                   /\ text = compiled
                   /\ \A k \in OptionKeys : ~Contains(text, <<OptionKeyword(k)>>)

\* the MySQL generator rendered a table that has a character set and a
\* collation but no engine
C10_Witness ==
    /\ ReturnedFrom("get_table_ddl")
    /\ generator.dialect = MYSQL
    /\ DOMAIN db.options[result.arg] = {"mysql_charset", "mysql_collate"}
    /\ Contains(result.outcome.value, <<"CHARACTER SET ">>)

\* C11: for a table without indexes get_indexes_ddl returns the empty list,
\* for a table without foreign keys get_foreign_keys_ddl returns the empty
\* list, and the complete script holds exactly one CREATE INDEX line per
\* index of a table and one ALTER TABLE line per foreign key (none for a
\* table that has none); every line of the script that is not empty is a
\* statement, so nothing stands in for the empty category.
C11_EmptyCategoryEmitsNothing ==
    /\ (ReturnedFrom("get_indexes_ddl") /\ db.indexes[result.arg] = <<>>)
            => result.outcome.value = <<>>
    /\ (ReturnedFrom("get_foreign_keys_ddl") /\ db.foreign_keys[result.arg] = <<>>)
            => result.outcome.value = <<>>
    /\ ReturnedScript =>
            /\ \A table_name \in Range(db.order) :
                   /\ Cardinality({i \in CreateIndexAt(Script) :
                                      IndexesTable(Script, i, table_name)})
                          = Len(db.indexes[table_name])
                   /\ Cardinality({j \in AlterTableAt(Script) :
                                      AltersTable(Script, j, table_name)})
                          = Len(db.foreign_keys[table_name])
            /\ \A n \in 1..Len(Lines(Script)) :
                   Lines(Script)[n] # <<>> => Lines(Script)[n][1] \in StatementKeywords

\* the SQL Server generator returned the script of two tables, the first
\* without any index or foreign key and the second with one of each
C11_Witness ==
    /\ ReturnedScript
    /\ generator.dialect = MSSQL
    /\ Len(db.order) = 2
    /\ db.indexes[db.order[1]] = <<>> /\ db.foreign_keys[db.order[1]] = <<>>
    /\ db.indexes[db.order[2]] # <<>> /\ db.foreign_keys[db.order[2]] # <<>>
    /\ CreateIndexAt(Script) # {} /\ AlterTableAt(Script) # {}

\* where an atom occurs in a text
Occurrences(text, atom) == {i \in 1..Len(text) : text[i] = atom}

\* C12: whatever the number of tables, zero included, the MySQL script holds
\* SET FOREIGN_KEY_CHECKS=0 exactly once, as its first statement, and SET
\* FOREIGN_KEY_CHECKS=1 exactly once, as its last; the SQL Server script
\* holds SET NOCOUNT ON exactly once, as its first statement; no script
\* holds a bracketing statement of another dialect or one per table.
C12_BracketingOncePerScript ==
    ReturnedScript =>
        LET off == Occurrences(Script, "SET FOREIGN_KEY_CHECKS=0;")
            on == Occurrences(Script, "SET FOREIGN_KEY_CHECKS=1;")
            nocount == Occurrences(Script, "SET NOCOUNT ON;")
        IN  /\ generator.dialect = MYSQL =>
                   /\ off = {1}
                   /\ on = {Len(Script) - 1} /\ Script[Len(Script)] = "\n"
                   /\ nocount = {}
            /\ generator.dialect = MSSQL =>
                   nocount = {1} /\ off = {} /\ on = {}
            /\ generator.dialect = POSTGRESQL =>
                   nocount = {} /\ off = {} /\ on = {}

\* the MySQL generator returned the script of two tables
C12_Witness ==
    /\ ReturnedScript
    /\ generator.dialect = MYSQL
    /\ Len(db.order) = 2
    /\ Cardinality(CreateTableAt(Script)) = 2
    /\ Script[1] = "SET FOREIGN_KEY_CHECKS=0;"

\* C13: get_all_tables_ddl returns a mapping whose keys are exactly the
\* tables get_table_names enumerates and whose value for a table is what
\* get_table_ddl returns for it; the mapping is the same for every order of
\* the enumeration, and the entry of a table is the one it has in a database
\* that holds this table alone.
C13_AllTablesDdlPerTable ==
    ReturnedFrom("get_all_tables_ddl") =>
        LET table_ddls == result.outcome.value
            alone(t) == [db EXCEPT !.order = <<t>>]
        IN  /\ DOMAIN table_ddls = Range(db.order)
            /\ \A t \in Range(db.order) :
                   /\ table_ddls[t] = get_table_ddl(generator, db, t)
                   /\ table_ddls[t] = get_all_tables_ddl(generator, alone(t))[t]
            /\ \A order \in Orders :
                   Range(order) = Range(db.order) =>
                       get_all_tables_ddl(generator, [db EXCEPT !.order = order])
                           = table_ddls

\* the MySQL generator returned the mapping of two tables whose texts differ
C13_Witness ==
    /\ ReturnedFrom("get_all_tables_ddl")
    /\ generator.dialect = MYSQL
    /\ Len(db.order) = 2
    /\ result.outcome.value[db.order[1]] # result.outcome.value[db.order[2]]

---------------------------------------------------------------------------
(* Replaying a script, statement by statement, against an empty database   *)
(* of the script's dialect.  A statement succeeds when the tables it names *)
(* exist; MySQL accepts a foreign key to a table that does not exist yet   *)
(* while FOREIGN_KEY_CHECKS is 0.                                           *)

Closers == {");", ") ", ") USING ", ") WITH (ONLINE = ON);"}

\* the names listed in the parentheses opened at position q
NamesListedAfter(text, q) ==
    LET close == CHOOSE k \in (q + 1)..Len(text) :
                     text[k] \in Closers /\ \A m \in (q + 1)..(k - 1) : text[m] \notin Closers
        IsName(atom) == atom # ", "
    IN  SelectSeq(SubSeq(text, q + 1, close - 1), IsName)

\* table_name has been created by a statement before position p
CreatedBefore(text, p, table_name) ==
    \E i \in CreateTableAt(text) : i < p /\ CreatesTable(text, i, table_name)

\* foreign key checks are switched off at position p
ChecksOffAt(text, p) ==
    \E i \in Occurrences(text, "SET FOREIGN_KEY_CHECKS=0;") :
        i < p /\ \A k \in Occurrences(text, "SET FOREIGN_KEY_CHECKS=1;") : k < i \/ p < k

\* the database accepts the statement that starts at position p
ReplaySucceedsAt(text, p) ==
    CASE p \in CreateTableAt(text) ->
            \A t \in TableNames : CreatesTable(text, p, t) => ~CreatedBefore(text, p, t)
      [] p \in CreateIndexAt(text) ->
            \E t \in TableNames : IndexesTable(text, p, t) /\ CreatedBefore(text, p, t)
      [] p \in AlterTableAt(text) ->
            /\ \E t \in TableNames : AltersTable(text, p, t) /\ CreatedBefore(text, p, t)
            /\ \E r \in TableNames :
                   /\ NamesTableAt(text, ReferencesAt(text, p), r)
                   /\ CreatedBefore(text, p, r) \/ ChecksOffAt(text, p)

\* the tables, indexes and foreign keys of the database after the replay
ReplayedTables(text) ==
    {[table |-> t, columns |-> text[i + Len(t) + 2]] :
        <<i, t>> \in {x \in CreateTableAt(text) \X TableNames : CreatesTable(text, x[1], x[2])}}

ReplayedIndexes(text) ==
    {[table |-> x[2],
      column_names |-> NamesListedAfter(text, OnAt(text, x[1]) + Len(x[2]) + 1),
      unique |-> (text[x[1] + 1] = "UNIQUE ")] :
        x \in {y \in CreateIndexAt(text) \X TableNames : IndexesTable(text, y[1], y[2])}}

ReplayedForeignKeys(text) ==
    {[table |-> x[2],
      constrained_columns |-> NamesListedAfter(text, x[1] + Len(x[2]) + 4),
      referred_table |-> x[3],
      referred_columns |->
          NamesListedAfter(text, ReferencesAt(text, x[1]) + Len(x[3]) + 1)] :
        x \in {y \in AlterTableAt(text) \X TableNames \X TableNames :
                    /\ AltersTable(text, y[1], y[2])
                    /\ NamesTableAt(text, ReferencesAt(text, y[1]), y[3])}}

\* the same of the database the script was generated from
SourceTables(d) == {[table |-> t, columns |-> d.columns[t]] : t \in Range(d.order)}

SourceIndexes(d) ==
    UNION {{[table |-> t, column_names |-> d.indexes[t][i].column_names,
             unique |-> d.indexes[t][i].unique] : i \in 1..Len(d.indexes[t])} :
           t \in Range(d.order)}

SourceForeignKeys(d) ==
    UNION {{[table |-> t,
             constrained_columns |-> d.foreign_keys[t][i].constrained_columns,
             referred_table |-> d.foreign_keys[t][i].referred_table,
             referred_columns |-> d.foreign_keys[t][i].referred_columns] :
                i \in 1..Len(d.foreign_keys[t])} :
           t \in Range(d.order)}

\* C14: round trip: every statement of the script get_complete_ddl returns
\* succeeds when the script is replayed in order against an empty database
\* of the dialect, and the replay yields the tables, columns, index column
\* lists with their uniqueness, and foreign-key column correspondences of
\* the database the script was generated from.
C14_RoundTrip ==
    ReturnedScript =>
        /\ \A p \in StatementAt(Script) : ReplaySucceedsAt(Script, p)
        /\ ReplayedTables(Script) = SourceTables(db)
        /\ ReplayedIndexes(Script) = SourceIndexes(db)
        /\ ReplayedForeignKeys(Script) = SourceForeignKeys(db)

\* C15: in every dialect and for every database, one without tables
\* included, the text get_complete_ddl returns ends with a newline; in the
\* MySQL script that newline follows the postamble.
C15_EndsWithNewline ==
    ReturnedScript =>
        /\ Len(Script) > 0
        /\ Script[Len(Script)] = "\n"
        /\ generator.dialect = MYSQL =>
               /\ Len(Script) > 1
               /\ Script[Len(Script) - 1] = "SET FOREIGN_KEY_CHECKS=1;"

\* the statement holds keyword followed by action, once
HoldsAction(statement, keyword, action) ==
    /\ Cardinality(Occurrences(statement, keyword)) = 1
    /\ \A k \in Occurrences(statement, keyword) :
           k < Len(statement) /\ statement[k + 1] = action

\* C16: in each of the three dialects, the statement get_foreign_keys_ddl
\* renders for a foreign key holds ON UPDATE with the action exactly when
\* the descriptor carries onupdate, ON DELETE with the action exactly when it
\* carries ondelete, and ON UPDATE before ON DELETE when it holds both.
C16_ActionClausesWhenCarried ==
    ReturnedFrom("get_foreign_keys_ddl") =>
        /\ Len(result.outcome.value) = Len(db.foreign_keys[result.arg])
        /\ \A i \in 1..Len(db.foreign_keys[result.arg]) :
               LET fk == db.foreign_keys[result.arg][i]
                   statement == result.outcome.value[i]
               IN  /\ IF "onupdate" \in DOMAIN fk
                      THEN HoldsAction(statement, "ON UPDATE ", fk.onupdate)
                      ELSE Occurrences(statement, "ON UPDATE ") = {}
                   /\ IF "ondelete" \in DOMAIN fk
                      THEN HoldsAction(statement, "ON DELETE ", fk.ondelete)
                      ELSE Occurrences(statement, "ON DELETE ") = {}
                   /\ \A u \in Occurrences(statement, "ON UPDATE "),
                         e \in Occurrences(statement, "ON DELETE ") : u < e

\* where a statement holds the keyword of an index method clause
UsingAt(statement) == {k \in 1..Len(statement) : statement[k] \in {") USING ", " USING "}}

\* C17: in the dialects whose CREATE INDEX takes a method clause (PostgreSQL
\* and MySQL), the statement get_indexes_ddl renders holds that clause for
\* every index: with the kind the descriptor carries when it carries one,
\* and otherwise with the dialect's default, BTREE in MySQL, instead of no
\* clause.
C17_IndexKindOrDefault ==
    (ReturnedFrom("get_indexes_ddl") /\ generator.dialect \in {POSTGRESQL, MYSQL}) =>
        \A i \in 1..Len(db.indexes[result.arg]) :
            LET index == db.indexes[result.arg][i]
                statement == result.outcome.value[i]
            IN  /\ Cardinality(UsingAt(statement)) = 1
                /\ \A k \in UsingAt(statement) :
                       /\ k < Len(statement)
                       /\ "mysql_type" \in DOMAIN index =>
                              statement[k + 1] = index.mysql_type
                       /\ ("mysql_type" \notin DOMAIN index /\ generator.dialect = MYSQL) =>
                              statement[k + 1] = "BTREE"

\* a foreign key of table t references table r
Refers(d, t, r) ==
    \E i \in 1..Len(d.foreign_keys[t]) : d.foreign_keys[t][i].referred_table = r

\* the tables reached from the set `from` along at most n foreign keys
RECURSIVE ReachedFrom(_, _, _)
ReachedFrom(d, from, n) ==
    IF n = 0 THEN from
    ELSE ReachedFrom(d, from \cup {r \in Range(d.order) : \E t \in from : Refers(d, t, r)},
                     n - 1)

\* the foreign keys from t to r lie on a cycle: r is t or leads back to t
OnCycle(d, t, r) ==
    Refers(d, t, r) /\ t \in ReachedFrom(d, {r}, Len(d.order))

\* C18: get_complete_ddl returns a script also when foreign keys reference
\* their own table or form a cycle between tables, and in it both tables of
\* every foreign key that lies on a cycle are created before that foreign
\* key's ALTER TABLE statement.
C18_CyclesCreatedBeforeConstraints ==
    (result.op = "get_complete_ddl" /\ fault = NoFault) =>
        /\ result.outcome.kind = "return"
        /\ \A t, r \in Range(db.order) :
               OnCycle(db, t, r) =>
                   \A j \in AlterTableAt(Script) :
                       (/\ AltersTable(Script, j, t)
                        /\ NamesTableAt(Script, ReferencesAt(Script, j), r))
                           => \A c \in ReachedFrom(db, {r}, Len(db.order)) :
                                  c \in ReachedFrom(db, {t}, Len(db.order)) =>
                                      CreatedBefore(Script, j, c)

\* the operation is blocked in a call the database never answers
Hangs == InProgress /\ fault = NoAnswer(PendingCall)

\* C19: every inspector call is bounded by a timeout of the caller's: an
\* operation blocked in a call the database never answers eventually ends
\* with a TimedOut failure.
C19_UnansweredCallTimesOut ==
    Hangs ~> (result.outcome.kind = "raise" /\ result.outcome.type = "TimedOut")

\* the last result is what a newly made generator of the dialect returns
\* for the database as it is
FromCurrentSchema ==
    /\ ReturnedFrom("get_table_ddl") =>
           result.outcome.value
               = get_table_ddl(NewGenerator(generator.dialect), db, result.arg)
    /\ ReturnedFrom("get_all_tables_ddl") =>
           result.outcome.value = get_all_tables_ddl(NewGenerator(generator.dialect), db)
    /\ ReturnedFrom("get_complete_ddl") =>
           result.outcome.value = get_complete_ddl(NewGenerator(generator.dialect), db)

\* C20: the generator keeps nothing between operations: every get_table_ddl,
\* get_all_tables_ddl and get_complete_ddl (the steps that leave the database
\* as it is) returns what a newly made generator returns for the database
\* as it is at that call, also when the schema changed after an earlier
\* operation of the same generator.
C20_NoStateBetweenCalls == [][db' = db => FromCurrentSchema']_vars

\* the parenthesis that opens the column list of the CREATE INDEX statement
ColumnsOpenAt(statement) ==
    CHOOSE q \in 1..Len(statement) :
        statement[q] = " (" /\ \A m \in 1..(q - 1) : statement[m] # " ("

\* C21: in all three dialects, the statement get_indexes_ddl renders lists
\* the columns of the index exactly as the descriptor's column_names lists
\* them: none dropped, duplicated or reordered, for one column or several.
C21_IndexColumnsInDescriptorOrder ==
    ReturnedFrom("get_indexes_ddl") =>
        /\ Len(result.outcome.value) = Len(db.indexes[result.arg])
        /\ \A i \in 1..Len(db.indexes[result.arg]) :
               NamesListedAfter(result.outcome.value[i],
                                ColumnsOpenAt(result.outcome.value[i]))
                   = db.indexes[result.arg][i].column_names

\* the MySQL generator rendered an index on (b, a)
C21_Witness ==
    /\ ReturnedFrom("get_indexes_ddl")
    /\ generator.dialect = MYSQL
    /\ db.indexes[result.arg] # <<>>
    /\ db.indexes[result.arg][1].column_names = <<"b", "a">>
    /\ Contains(result.outcome.value[1], <<" (", "b", ", ", "a", ") USING ">>)

\* the parenthesis that opens the constrained columns of the ALTER TABLE
\* statement, and the one that opens its referred columns
ConstrainedOpenAt(statement) ==
    CHOOSE q \in 1..Len(statement) : statement[q] = "FOREIGN KEY ("
ReferredOpenAt(statement) ==
    CHOOSE q \in ReferencesAt(statement, 1)..Len(statement) :
        /\ statement[q] = " ("
        /\ \A m \in ReferencesAt(statement, 1)..(q - 1) : statement[m] # " ("

\* C22: in all three dialects, the statement get_foreign_keys_ddl renders
\* lists the constrained columns and the referred columns of the foreign key
\* as two lists of the same length, each in the order of the descriptor, so
\* that the i-th constrained column faces the i-th referred column.
C22_ForeignKeyColumnsCorrespond ==
    ReturnedFrom("get_foreign_keys_ddl") =>
        /\ Len(result.outcome.value) = Len(db.foreign_keys[result.arg])
        /\ \A i \in 1..Len(db.foreign_keys[result.arg]) :
               LET statement == result.outcome.value[i]
                   fk == db.foreign_keys[result.arg][i]
                   constrained == NamesListedAfter(statement, ConstrainedOpenAt(statement))
                   referred == NamesListedAfter(statement, ReferredOpenAt(statement))
               IN  /\ Len(constrained) = Len(referred)
                   /\ constrained = fk.constrained_columns
                   /\ referred = fk.referred_columns

\* the SQL Server generator rendered a foreign key of (c, a) to (b, c)
C22_Witness ==
    /\ ReturnedFrom("get_foreign_keys_ddl")
    /\ generator.dialect = MSSQL
    /\ db.foreign_keys[result.arg] # <<>>
    /\ db.foreign_keys[result.arg][1].constrained_columns = <<"c", "a">>
    /\ db.foreign_keys[result.arg][1].referred_columns = <<"b", "c">>
    /\ Contains(result.outcome.value[1], <<"FOREIGN KEY (", "c", ", ", "a", ") ">>)
    /\ Contains(result.outcome.value[1], <<" (", "b", ", ", "c", ");">>)

\* C23: get_schema_name returns the part of the identifier before its first
\* '.' when the identifier holds a '.', and None when it holds none; of an
\* identifier with several dots it returns only the part before the first.
C23_SchemaIsPartBeforeFirstDot ==
    ReturnedFrom("get_schema_name") =>
        LET table_name == result.arg
            Dots == {k \in 1..Len(table_name) : table_name[k] = "."}
        IN  IF Dots = {}
            THEN result.outcome.value = NoSchema
            ELSE /\ result.outcome.value.schema
                 /\ \E k \in Dots :
                        /\ \A m \in Dots : k <= m
                        /\ result.outcome.value.name = SubSeq(table_name, 1, k - 1)

\* get_schema_name returned "s" for the identifier "s.t.s"
C23_Witness ==
    /\ ReturnedFrom("get_schema_name")
    /\ result.arg = <<"s", ".", "t", ".", "s">>
    /\ result.outcome.value = SchemaOf(<<"s">>)

\* the identifier of the table a foreign key refers to: qualified by its
\* schema with the separator of the dialects, '.', when it lives in one
ReferredIdentifier(fk) ==
    IF fk.referred_schema = None THEN fk.referred_table
    ELSE <<fk.referred_schema, ".">> \o fk.referred_table

\* C24: every table identifier of an index statement and of a foreign key
\* statement is rendered with its schema qualifier and the separator when it
\* has a qualifier and bare when it has none, the referred table of a
\* foreign key included: a referred table that lives in a schema is never
\* rendered without it.
C24_IdentifiersKeepTheirSchema ==
    /\ ReturnedFrom("get_indexes_ddl") =>
           \A i \in 1..Len(result.outcome.value) :
               IndexesTable(result.outcome.value[i], 1, result.arg)
    /\ ReturnedFrom("get_foreign_keys_ddl") =>
           \A i \in 1..Len(result.outcome.value) :
               LET statement == result.outcome.value[i]
                   fk == db.foreign_keys[result.arg][i]
               IN  /\ AltersTable(statement, 1, result.arg)
                   /\ NamesTableAt(statement, ReferencesAt(statement, 1),
                                   ReferredIdentifier(fk))

\* the line of a script is a statement on table_name
OnTable(line, table_name) ==
    /\ line # <<>>
    /\ \/ line[1] = "CREATE TABLE " /\ NamesTableAt(line, 1, table_name)
       \/ line[1] = "CREATE " /\ IndexesTable(line, 1, table_name)
       \/ line[1] = "ALTER TABLE " /\ AltersTable(line, 1, table_name)

\* C29: the statements of the script get_complete_ddl returns are, for each
\* table get_table_names enumerates, its CREATE TABLE text, then the
\* statements of get_indexes_ddl and those of get_foreign_keys_ddl, each one
\* once and in the order the provider returned them; the script holds no
\* other CREATE or ALTER statement.
C29_EveryStatementOnce ==
    ReturnedScript =>
        /\ \A table_name \in Range(db.order) :
               LET Test(line) == OnTable(line, table_name)
               IN  SelectSeq(Lines(Script), Test)
                       = <<get_table_ddl(generator, db, table_name)>>
                           \o get_indexes_ddl(generator, db, table_name)
                           \o get_foreign_keys_ddl(generator, db, table_name)
        /\ \A n \in 1..Len(Lines(Script)) :
               (/\ Lines(Script)[n] # <<>>
                /\ Lines(Script)[n][1] \in {"CREATE TABLE ", "CREATE ", "ALTER TABLE "})
                   => \E table_name \in Range(db.order) :
                          OnTable(Lines(Script)[n], table_name)

\* a script of two tables, each with two indexes and two foreign keys
C29_Witness ==
    /\ ReturnedScript
    /\ Len(db.order) = 2
    /\ \A table_name \in Range(db.order) :
           /\ Len(db.indexes[table_name]) = 2
           /\ Len(db.foreign_keys[table_name]) = 2
    /\ Cardinality(CreateTableAt(Script)) = 2
    /\ Cardinality(CreateIndexAt(Script)) = 4
    /\ Cardinality(AlterTableAt(Script)) = 4

\* the characters of the closing texts of a statement, one by one
Pieces(atom) ==
    CASE atom = ");" -> <<")", ";">>
      [] atom = ") " -> <<")", " ">>
      [] OTHER -> <<atom>>

\* a text whose closing parentheses, blanks and semicolons stand alone
Spelled(text) == Flatten([i \in 1..Len(text) |-> Pieces(text[i])])

\* C30: a foreign key that carries no ON UPDATE and no ON DELETE action is
\* rendered by each of the three dialects as ALTER TABLE <table> ADD
\* CONSTRAINT <name> FOREIGN KEY (<cols>) REFERENCES <ref_table>
\* (<ref_cols>); with nothing between the closing parenthesis and the
\* semicolon.
C30_SameTextWithoutActions ==
    ReturnedFrom("get_foreign_keys_ddl") =>
        \A i \in 1..Len(result.outcome.value) :
            LET fk == db.foreign_keys[result.arg][i]
            IN  ({"onupdate", "ondelete"} \cap DOMAIN fk = {}) =>
                    Spelled(result.outcome.value[i])
                        = <<"ALTER TABLE ">> \o result.arg
                            \o <<" ADD CONSTRAINT ", fk.name, " ", "FOREIGN KEY (">>
                            \o JoinNames(<<", ">>, fk.constrained_columns)
                            \o <<")", " ", "REFERENCES ">> \o fk.referred_table
                            \o <<" (">> \o JoinNames(<<", ">>, fk.referred_columns)
                            \o <<")", ";">>

\* C28: for each of the three database types and every host, database, user
\* and password, create_ddl_generator given the connection string that
\* create_connection_string (of dump_ddl, or of DatabaseConnection) builds
\* for that type selects the generator of that type, also when a name or a
\* password holds the tag of another dialect.
C28_GeneratorOfTheBuiltString ==
    Selected =>
        \A t \in DatabaseType, database \in Names, username \in Names,
           password \in Passwords, port \in Ports :
            (\/ result.arg = create_connection_string(t, Host, database, username,
                                                      password, port).value
             \/ result.arg = _create_connection_string(t, Host, database, username,
                                                       password, port).value)
                => result.outcome = Return(t)

\* what get_ddl and get_tables are to return: the ddl and the tables of the
\* current db_info, None when there is none
CurrentDdl ==
    IF connection.db_info.some THEN Some(connection.db_info.value.ddl) ELSE Nothing
CurrentTables ==
    IF connection.db_info.some THEN Some(connection.db_info.value.tables) ELSE Nothing

\* C25: after any sequence of connect, disconnect, get_ddl and get_tables on
\* the singleton, get_ddl returns the ddl of the current db_info and
\* get_tables its tables, and both return None when the singleton is not
\* connected: never the value of an earlier connection, or of the time
\* before the first one.
C25_GettersReturnCurrentInfo ==
    /\ ReturnedFrom("get_ddl") => result.outcome.value = CurrentDdl
    /\ ReturnedFrom("get_tables") => result.outcome.value = CurrentTables

\* the step is a connect that raised
ConnectFailed == result'.op = "connect" /\ result'.outcome.kind = "raise"

\* C26: a connect that fails at any step (connection string, connection
\* test, generator, DDL extraction) leaves the singleton as it was: it stays
\* disconnected and keeps no engine and no executor of the failed attempt;
\* and the singleton is connected exactly when its executors are set.
C26_FailedConnectLeavesNoTrace ==
    [][/\ ConnectFailed =>
              /\ connection'.db_info = connection.db_info
              /\ connection'.engine = connection.engine
              /\ connection'.sync_executor = connection.sync_executor
              /\ connection'.async_executor = connection.async_executor
       /\ connection'.db_info.some
              = (connection'.sync_executor.set /\ connection'.async_executor.set)]_vars

\* C27: after disconnect, from any state, the singleton is not connected and
\* its db_info and both executors are None; and DatabaseConnection() called
\* again while it is connected returns the same instance and leaves its
\* connected state as it is.
C27_DisconnectClearsConstructKeeps ==
    [][/\ result'.op = "disconnect" =>
              /\ ~connection'.db_info.some
              /\ connection'.sync_executor = NoObject
              /\ connection'.async_executor = NoObject
       /\ (result'.op = "DatabaseConnection" /\ connection.instance
              /\ connection.db_info.some) =>
              /\ connection'.db_info = connection.db_info
              /\ connection'.sync_executor = connection.sync_executor
              /\ connection'.async_executor = connection.async_executor
              /\ connection'.engine = connection.engine]_vars

====
